---------------------------- MODULE Spec2Model ----------------------------
(***************************************************************************)
(* Model of the queued job processor (core/lib/queued_job_processor):      *)
(* JobProcessor::run and JobProcessor::wait_for_task, run by several       *)
(* worker instances against one shared job store and one stop signal.      *)
(*                                                                         *)
(* Each instance is a sequential process; pc[p] is the place in run /      *)
(* wait_for_task where instance p stands.  The steps are cut where the     *)
(* code reads shared state (the stop signal, the store, the task handle)   *)
(* or awaits, so that every interleaving with the other instances, the     *)
(* spawned tasks and the sender of the stop signal is explored.            *)
(***************************************************************************)
EXTENDS Integers, Sequences, FiniteSets, TLC

\* ------------------------------------------------------------- bounds
MaxJobs == 2
MaxBudget == 2
MaxCalls == 3

Procs == {"w1", "w2"}
JobIds == 1..MaxJobs
NoJob == 0

\* Option<usize>: the iterations_left parameter of run
None == [some |-> FALSE, val |-> 0]
Some(n) == [some |-> TRUE, val |-> n]
Budgets == {None} \cup {Some(n) : n \in 0..MaxBudget}

VARIABLES
    status,           \* job store: job id -> absent/pending/claimed/completed/failed
    stop,             \* the value held by the watch channel of the stop signal
    pc,               \* instance -> place in run / wait_for_task
    iterations_left,  \* instance -> remaining budget (Option<usize>)
    budget0,          \* instance -> the budget run was called with
    job_id,           \* instance -> job id bound by `if let Some((job_id, job))`
    task,             \* instance -> state of the JoinHandle returned by process_job
    claimed,          \* history: instance -> job ids returned by get_next_job, in order
    saved,            \* history: instance -> every save_* call, in order: the job id
                      \*   passed, the call made, and how the task had ended
    getCalls,         \* history: instance -> number of get_next_job calls begun,
                      \*   counted up to MaxCalls
    lateCalls,        \* history: instance -> get_next_job calls begun while stop was set
    stopAt            \* history: instance -> its pc at the moment the signal was set

vars == <<status, stop, pc, iterations_left, budget0, job_id, task,
          claimed, saved, getCalls, lateCalls, stopAt>>

\* places of run (lines 56-84) and of wait_for_task (lines 93-131)
RunningPCs == {"checkpoint", "get_next", "sleep"}
SupervisingPCs == {"dispatch", "poll", "wait_sleep"}
ReturnedPCs == {"returned_stop", "returned_empty", "returned_done"}
FaultedPCs == {"faulted_get_next_job", "faulted_save_result", "faulted_save_failure"}

Returned(p) == pc[p] \in ReturnedPCs
Faulted(p) == pc[p] \in FaultedPCs

PendingJobs == {j \in JobIds : status[j] = "pending"}

\* mutant: the loop condition is `i >= 0`
HasBudget_GE0(b) == (~b.some) \/ b.val >= 0

\* mutant: the loop condition is `i > 1`
HasBudget_GT1(b) == (~b.some) \/ b.val > 1

\* iterations_left.map_or(true, |i| i > 0)
HasBudget(b) == (~b.some) \/ b.val > 0

\* mutant: the budget is not decremented
DecrBudget_Skip(b) == b

\* iterations_left.map(|i| i - 1)
DecrBudget(b) == IF b.some THEN Some(b.val - 1) ELSE None

Init ==
    /\ status \in [JobIds -> {"absent", "pending"}]
    /\ stop \in BOOLEAN
    /\ pc = [p \in Procs |-> "checkpoint"]
    /\ budget0 \in [Procs -> Budgets]
    /\ iterations_left = budget0
    /\ job_id = [p \in Procs |-> NoJob]
    /\ task = [p \in Procs |-> "none"]
    /\ claimed = [p \in Procs |-> <<>>]
    /\ saved = [p \in Procs |-> <<>>]
    /\ getCalls = [p \in Procs |-> 0]
    /\ lateCalls = [p \in Procs |-> 0]
    /\ stopAt = [p \in Procs |-> IF stop THEN "entry" ELSE "never"]

\* ------------------------------------------------------- environment

\* where an instance stood when the signal was set: between its stop check and
\* its get_next_job call, with a job in flight, in the idle sleep, or elsewhere
StopPlace(at) ==
    IF at = "get_next" THEN "get_next"
    ELSE IF at \in SupervisingPCs THEN "supervising"
    ELSE IF at = "sleep" THEN "sleep"
    ELSE "other"

\* the owner of the watch::Sender sends `true`
SetStop ==
    /\ ~stop
    /\ stop' = TRUE
    /\ stopAt' = [p \in Procs |-> StopPlace(pc[p])]
    /\ UNCHANGED <<status, pc, iterations_left, budget0, job_id, task,
                   claimed, saved, getCalls, lateCalls>>

\* a producer puts a new job into the backlog
AddJob(j) ==
    /\ status[j] = "absent"
    /\ status' = [status EXCEPT ![j] = "pending"]
    /\ UNCHANGED <<stop, pc, iterations_left, budget0, job_id, task,
                   claimed, saved, getCalls, lateCalls, stopAt>>

\* ------------------------------------------------------------- run

\* mutant: the stop signal is not read at the head of the loop
Checkpoint_NoStopCheck(p) ==
    /\ pc[p] = "checkpoint"
    /\ pc' = [pc EXCEPT ![p] = IF ~HasBudget(iterations_left[p]) THEN "returned_done"
                                 ELSE "get_next"]
    /\ UNCHANGED <<status, stop, iterations_left, budget0, job_id, task,
                   claimed, saved, getCalls, lateCalls, stopAt>>

\* mutant: the instance that sees the signal resets it on its way out
Checkpoint_ClearsStop(p) ==
    /\ pc[p] = "checkpoint"
    /\ pc' = [pc EXCEPT ![p] = IF ~HasBudget(iterations_left[p]) THEN "returned_done"
                                 ELSE IF stop THEN "returned_stop"
                                 ELSE "get_next"]
    /\ stop' = IF HasBudget(iterations_left[p]) THEN FALSE ELSE stop
    /\ UNCHANGED <<status, iterations_left, budget0, job_id, task,
                   claimed, saved, getCalls, lateCalls, stopAt>>

\* mutant: on a set signal the loop does `continue` instead of `return`
Checkpoint_ContinueOnStop(p) ==
    /\ pc[p] = "checkpoint"
    /\ pc' = [pc EXCEPT ![p] = IF ~HasBudget(iterations_left[p]) THEN "returned_done"
                                 ELSE IF stop THEN "checkpoint"
                                 ELSE "get_next"]
    /\ UNCHANGED <<status, stop, iterations_left, budget0, job_id, task,
                   claimed, saved, getCalls, lateCalls, stopAt>>

\* mutant: the loop is `loop`, the budget is not tested at its head
Checkpoint_NoBudgetCheck(p) ==
    /\ pc[p] = "checkpoint"
    /\ pc' = [pc EXCEPT ![p] = IF stop THEN "returned_stop" ELSE "get_next"]
    /\ UNCHANGED <<status, stop, iterations_left, budget0, job_id, task,
                   claimed, saved, getCalls, lateCalls, stopAt>>

\* lines 56-63 and 84: the loop condition on the budget, then the read of the
\* stop signal: `while iterations_left.map_or(true, |i| i > 0)` and
\* `if *stop_receiver.borrow() { return; }`
Checkpoint(p) ==
    /\ pc[p] = "checkpoint"
    /\ pc' = [pc EXCEPT ![p] = IF ~HasBudget(iterations_left[p]) THEN "returned_done"
                                 ELSE IF stop THEN "returned_stop"
                                 ELSE "get_next"]
    /\ UNCHANGED <<status, stop, iterations_left, budget0, job_id, task,
                   claimed, saved, getCalls, lateCalls, stopAt>>

\* bookkeeping of a get_next_job call that begins now; the count of calls
\* stops at MaxCalls (the run itself is not stopped by it)
CallGetNextJob(p) ==
    /\ getCalls' = [getCalls EXCEPT ![p] = IF @ < MaxCalls THEN @ + 1 ELSE @]
    /\ lateCalls' = [lateCalls EXCEPT ![p] = IF stop THEN @ + 1 ELSE @]

\* the store's atomic claim: a pending job becomes claimed and is returned
ClaimJob(j) ==
    /\ status[j] = "pending"
    /\ status' = [status EXCEPT ![j] = "claimed"]

\* lines 64-66: get_next_job returned Some((job_id, job)); the budget is decremented
GetNextJobSome(p, j) ==
    /\ pc[p] = "get_next"
    /\ CallGetNextJob(p)
    /\ ClaimJob(j)
    /\ job_id' = [job_id EXCEPT ![p] = j]
    /\ claimed' = [claimed EXCEPT ![p] = Append(@, j)]
    /\ iterations_left' = [iterations_left EXCEPT ![p] = DecrBudget(@)]
    /\ pc' = [pc EXCEPT ![p] = "dispatch"]
    /\ UNCHANGED <<stop, budget0, task, saved, stopAt>>

\* the store has nothing claimable: get_next_job returns None
NoPendingJob == PendingJobs = {}

\* mutant: None always leads to the sleep, in a bounded run too
GetNextJobNone_AlwaysSleep(p) ==
    /\ pc[p] = "get_next"
    /\ CallGetNextJob(p)
    /\ NoPendingJob
    /\ pc' = [pc EXCEPT ![p] = "sleep"]
    /\ UNCHANGED <<status, stop, iterations_left, budget0, job_id, task,
                   claimed, saved, stopAt>>

\* mutant: None always ends the run, in an unbounded run too
GetNextJobNone_AlwaysReturn(p) ==
    /\ pc[p] = "get_next"
    /\ CallGetNextJob(p)
    /\ NoPendingJob
    /\ pc' = [pc EXCEPT ![p] = "returned_empty"]
    /\ UNCHANGED <<status, stop, iterations_left, budget0, job_id, task,
                   claimed, saved, stopAt>>

\* mutant: the budget is decremented by a poll that found nothing, too
GetNextJobNone_Decr(p) ==
    /\ pc[p] = "get_next"
    /\ CallGetNextJob(p)
    /\ NoPendingJob
    /\ iterations_left' = [iterations_left EXCEPT ![p] = DecrBudget(@)]
    /\ pc' = [pc EXCEPT ![p] = IF iterations_left[p].some
                                 THEN "returned_empty" ELSE "sleep"]
    /\ UNCHANGED <<status, stop, budget0, job_id, task, claimed, saved, stopAt>>

\* lines 77-82: get_next_job returned None
GetNextJobNone(p) ==
    /\ pc[p] = "get_next"
    /\ CallGetNextJob(p)
    /\ NoPendingJob
    /\ pc' = [pc EXCEPT ![p] = IF iterations_left[p].some
                                 THEN "returned_empty" ELSE "sleep"]
    /\ UNCHANGED <<status, stop, iterations_left, budget0, job_id, task,
                   claimed, saved, stopAt>>

\* mutant: the panic of get_next_job is caught and the loop goes on
GetNextJobFault_Retry(p) ==
    /\ pc[p] = "get_next"
    /\ CallGetNextJob(p)
    /\ pc' = [pc EXCEPT ![p] = "checkpoint"]
    /\ UNCHANGED <<status, stop, iterations_left, budget0, job_id, task,
                   claimed, saved, stopAt>>

\* line 64: get_next_job panics (a store fault); nothing in run catches it
GetNextJobFault(p) ==
    /\ pc[p] = "get_next"
    /\ CallGetNextJob(p)
    /\ pc' = [pc EXCEPT ![p] = "faulted_get_next_job"]
    /\ UNCHANGED <<status, stop, iterations_left, budget0, job_id, task,
                   claimed, saved, stopAt>>

\* mutant: after the sleep the claim is retried without passing the stop check
Sleep_Retry(p) ==
    /\ pc[p] = "sleep"
    /\ pc' = [pc EXCEPT ![p] = "get_next"]
    /\ UNCHANGED <<status, stop, iterations_left, budget0, job_id, task,
                   claimed, saved, getCalls, lateCalls, stopAt>>

\* mutant: after the sleep the loop is left instead of being repeated
Sleep_Return(p) ==
    /\ pc[p] = "sleep"
    /\ pc' = [pc EXCEPT ![p] = "returned_empty"]
    /\ UNCHANGED <<status, stop, iterations_left, budget0, job_id, task,
                   claimed, saved, getCalls, lateCalls, stopAt>>

\* line 81: sleep(POLLING_INTERVAL_MS), then back to the loop condition
Sleep(p) ==
    /\ pc[p] = "sleep"
    /\ pc' = [pc EXCEPT ![p] = "checkpoint"]
    /\ UNCHANGED <<status, stop, iterations_left, budget0, job_id, task,
                   claimed, saved, getCalls, lateCalls, stopAt>>

\* mutant: the task is spawned and run goes on without awaiting wait_for_task
ProcessJob_NoWait(p) ==
    /\ pc[p] = "dispatch"
    /\ task' = [task EXCEPT ![p] = "running"]
    /\ pc' = [pc EXCEPT ![p] = "checkpoint"]
    /\ UNCHANGED <<status, stop, iterations_left, budget0, job_id,
                   claimed, saved, getCalls, lateCalls, stopAt>>

\* line 74: process_job spawns the task and returns its JoinHandle;
\* line 76: wait_for_task is entered
ProcessJob(p) ==
    /\ pc[p] = "dispatch"
    /\ task' = [task EXCEPT ![p] = "running"]
    /\ pc' = [pc EXCEPT ![p] = "poll"]
    /\ UNCHANGED <<status, stop, iterations_left, budget0, job_id,
                   claimed, saved, getCalls, lateCalls, stopAt>>

\* ------------------------------------------------- the spawned task

\* the task returns its artifacts
TaskFinish(p) ==
    /\ task[p] = "running"
    /\ task' = [task EXCEPT ![p] = "ok"]
    /\ UNCHANGED <<status, stop, pc, iterations_left, budget0, job_id,
                   claimed, saved, getCalls, lateCalls, stopAt>>

\* the task panics
TaskPanic(p) ==
    /\ task[p] = "running"
    /\ task' = [task EXCEPT ![p] = "panicked"]
    /\ UNCHANGED <<status, stop, pc, iterations_left, budget0, job_id,
                   claimed, saved, getCalls, lateCalls, stopAt>>

\* --------------------------------------------------- wait_for_task

\* mutant: the poll loop reads the stop signal and gives the job up
PollPending_StopAware(p) ==
    /\ pc[p] = "poll"
    /\ task[p] = "running"
    /\ pc' = [pc EXCEPT ![p] = IF stop THEN "returned_stop" ELSE "wait_sleep"]
    /\ UNCHANGED <<status, stop, iterations_left, budget0, job_id, task,
                   claimed, saved, getCalls, lateCalls, stopAt>>

\* mutant: the poll loop gives a running task up (a timeout) and returns to run
PollPending_Timeout(p) ==
    /\ pc[p] = "poll"
    /\ task[p] = "running"
    /\ pc' = [pc EXCEPT ![p] = "checkpoint"]
    /\ UNCHANGED <<status, stop, iterations_left, budget0, job_id, task,
                   claimed, saved, getCalls, lateCalls, stopAt>>

\* lines 100, 130: task.is_finished() is false; sleep one polling interval
PollPending(p) ==
    /\ pc[p] = "poll"
    /\ task[p] = "running"
    /\ pc' = [pc EXCEPT ![p] = "wait_sleep"]
    /\ UNCHANGED <<status, stop, iterations_left, budget0, job_id, task,
                   claimed, saved, getCalls, lateCalls, stopAt>>

\* mutant: every round of the poll loop invokes process_job again
WaitSleep_Respawn(p) ==
    /\ pc[p] = "wait_sleep"
    /\ task' = [task EXCEPT ![p] = "running"]
    /\ pc' = [pc EXCEPT ![p] = "poll"]
    /\ UNCHANGED <<status, stop, iterations_left, budget0, job_id,
                   claimed, saved, getCalls, lateCalls, stopAt>>

\* line 130 -> line 93: the sleep ends, the loop polls again
WaitSleep(p) ==
    /\ pc[p] = "wait_sleep"
    /\ pc' = [pc EXCEPT ![p] = "poll"]
    /\ UNCHANGED <<status, stop, iterations_left, budget0, job_id, task,
                   claimed, saved, getCalls, lateCalls, stopAt>>

\* mutant: both arms of the match call save_result
OutcomeCall_AlwaysResult(t) == "save_result"

\* lines 102-126: match task.await { Ok(data) => save_result, Err(error) => save_failure }
OutcomeCall(t) == IF t = "ok" THEN "save_result" ELSE "save_failure"

\* the store's terminal write of a save_result / save_failure call
Persist(j, call) ==
    status' = [status EXCEPT ![j] = IF call = "save_result" THEN "completed" ELSE "failed"]

\* mutant: the `break` is missing, the loop polls the finished task again
EndSupervision_NoBreak(p) ==
    UNCHANGED <<task, job_id, pc>>

\* line 128: break, wait_for_task returns and run is back at line 56; the handle
\* was consumed by task.await and job_id was moved into the save_* call
EndSupervision(p) ==
    /\ task' = [task EXCEPT ![p] = "none"]
    /\ job_id' = [job_id EXCEPT ![p] = NoJob]
    /\ pc' = [pc EXCEPT ![p] = "checkpoint"]

\* mutant: the finished task is dropped without any save_* call
SaveOutcome_NoSave(p) ==
    /\ pc[p] = "poll"
    /\ task[p] \in {"ok", "panicked"}
    /\ EndSupervision(p)
    /\ UNCHANGED <<status, stop, iterations_left, budget0, claimed, saved,
                   getCalls, lateCalls, stopAt>>

\* mutant: task.await is unwrapped, so the task's panic is raised again in run
SaveOutcome_Unwrap(p) ==
    /\ pc[p] = "poll"
    /\ task[p] \in {"ok", "panicked"}
    /\ IF task[p] = "ok"
       THEN /\ saved' = [saved EXCEPT ![p] = Append(@, [job |-> job_id[p],
                                                       call |-> "save_result",
                                                       result |-> task[p]])]
            /\ Persist(job_id[p], "save_result")
            /\ EndSupervision(p)
       ELSE /\ pc' = [pc EXCEPT ![p] = "faulted_task_panic"]
            /\ UNCHANGED <<status, saved, task, job_id>>
    /\ UNCHANGED <<stop, iterations_left, budget0, claimed, getCalls, lateCalls, stopAt>>

\* mutant: the outcome is saved under the id of the first job of the run
SaveOutcome_StaleId(p) ==
    /\ pc[p] = "poll"
    /\ task[p] \in {"ok", "panicked"}
    /\ saved' = [saved EXCEPT ![p] = Append(@, [job |-> claimed[p][1],
                                                call |-> OutcomeCall(task[p]),
                                                result |-> task[p]])]
    /\ Persist(claimed[p][1], OutcomeCall(task[p]))
    /\ EndSupervision(p)
    /\ UNCHANGED <<stop, iterations_left, budget0, claimed, getCalls, lateCalls, stopAt>>

\* mutant: the test of is_finished is inverted, a finished task is polled on
SaveOutcome_Missed(p) ==
    /\ pc[p] = "poll"
    /\ task[p] \in {"ok", "panicked"}
    /\ pc' = [pc EXCEPT ![p] = "wait_sleep"]
    /\ UNCHANGED <<status, stop, iterations_left, budget0, job_id, task,
                   claimed, saved, getCalls, lateCalls, stopAt>>

\* lines 100-128: task.is_finished() is true; the result is matched and saved
\* by one call of save_result or save_failure; break
SaveOutcome(p) ==
    /\ pc[p] = "poll"
    /\ task[p] \in {"ok", "panicked"}
    /\ saved' = [saved EXCEPT ![p] = Append(@, [job |-> job_id[p],
                                                call |-> OutcomeCall(task[p]),
                                                result |-> task[p]])]
    /\ Persist(job_id[p], OutcomeCall(task[p]))
    /\ EndSupervision(p)
    /\ UNCHANGED <<stop, iterations_left, budget0, claimed, getCalls, lateCalls, stopAt>>

\* lines 109, 119-125: the save_* call panics (a store fault) before it
\* persists anything; nothing in wait_for_task or run catches it
SaveFault(p) ==
    /\ pc[p] = "poll"
    /\ task[p] \in {"ok", "panicked"}
    /\ pc' = [pc EXCEPT ![p] = IF OutcomeCall(task[p]) = "save_result"
                                 THEN "faulted_save_result" ELSE "faulted_save_failure"]
    /\ UNCHANGED <<status, stop, iterations_left, budget0, job_id, task,
                   claimed, saved, getCalls, lateCalls, stopAt>>

\* ------------------------------------------------------------ system

Next ==
    \/ SetStop
    \/ \E j \in JobIds : AddJob(j)
    \/ \E p \in Procs : Checkpoint(p)
    \/ \E p \in Procs : \E j \in JobIds : GetNextJobSome(p, j)
    \/ \E p \in Procs : GetNextJobNone(p)
    \/ \E p \in Procs : GetNextJobFault(p)
    \/ \E p \in Procs : Sleep(p)
    \/ \E p \in Procs : ProcessJob(p)
    \/ \E p \in Procs : TaskFinish(p)
    \/ \E p \in Procs : TaskPanic(p)
    \/ \E p \in Procs : PollPending(p)
    \/ \E p \in Procs : WaitSleep(p)
    \/ \E p \in Procs : SaveOutcome(p)
    \/ \E p \in Procs : SaveFault(p)

Spec == Init /\ [][Next]_vars

\* the steps of instance p itself: its run future is polled by the executor
InstanceStep(p) ==
    \/ Checkpoint(p)
    \/ \E j \in JobIds : GetNextJobSome(p, j)
    \/ GetNextJobNone(p)
    \/ GetNextJobFault(p)
    \/ Sleep(p)
    \/ ProcessJob(p)
    \/ PollPending(p)
    \/ WaitSleep(p)
    \/ SaveOutcome(p)
    \/ SaveFault(p)

\* the end of the task spawned by instance p
TaskStep(p) == TaskFinish(p) \/ TaskPanic(p)

\* the executor schedules every instance fairly: an awaited call or sleep
\* completes and the loop goes on; a spawned task may run forever
HungSpec == Spec /\ \A p \in Procs : WF_vars(InstanceStep(p))

\* as HungSpec, and every spawned task ends (normally or by panic)
FairSpec == HungSpec /\ \A p \in Procs : WF_vars(TaskStep(p))

TypeOK ==
    /\ status \in [JobIds -> {"absent", "pending", "claimed", "completed", "failed"}]
    /\ stop \in BOOLEAN
    /\ pc \in [Procs -> RunningPCs \cup SupervisingPCs \cup ReturnedPCs \cup FaultedPCs]
    /\ job_id \in [Procs -> JobIds \cup {NoJob}]
    /\ task \in [Procs -> {"none", "running", "ok", "panicked"}]

\* ------------------------------------------------ auxiliary operators

RECURSIVE SumOver(_, _)
SumOver(f, S) ==
    IF S = {} THEN 0
    ELSE LET x == CHOOSE y \in S : TRUE IN f[x] + SumOver(f, S \ {x})

\* job ids an instance obtained from get_next_job / passed to a save_* call
ClaimedJobs(p) == {claimed[p][i] : i \in 1..Len(claimed[p])}
SavedJobs(p) == {saved[p][i].job : i \in 1..Len(saved[p])}
UnresolvedJobs(p) == ClaimedJobs(p) \ SavedJobs(p)

\* number of save_* calls made for job j, by all instances together
SaveCount(j) ==
    SumOver([p \in Procs |-> Cardinality({i \in 1..Len(saved[p]) : saved[p][i].job = j})],
            Procs)

Terminal == {"completed", "failed"}

\* ------------------------------------------------------------- claims

\* C1: an instance holds at most one unresolved job, and stands before a
\* get_next_job call only when every job it claimed earlier has had its
\* save_result or save_failure call.
C1_AtMostOneUnresolved ==
    \A p \in Procs :
        /\ Cardinality(UnresolvedJobs(p)) <= 1
        /\ Len(claimed[p]) - Len(saved[p]) \in {0, 1}
        /\ pc[p] = "get_next" => UnresolvedJobs(p) = {} /\ Len(claimed[p]) = Len(saved[p])

\* an instance supervising its second job after it resolved its first
C1_Witness ==
    \E p \in Procs : Len(claimed[p]) = 2 /\ Len(saved[p]) = 1 /\ pc[p] = "poll"

\* C2: no job ever has two save_* calls, and whenever an instance is back in
\* the loop (about to claim again, sleeping) or has returned from run, each job
\* it claimed has exactly one save_* call and a terminal record in the store.
C2_OneOutcomeBeforeNextClaim ==
    /\ \A j \in JobIds : SaveCount(j) <= 1
    /\ \A p \in Procs :
          pc[p] \in RunningPCs \cup ReturnedPCs =>
              \A j \in ClaimedJobs(p) : SaveCount(j) = 1 /\ status[j] \in Terminal

\* an instance about to call get_next_job again after its job was resolved
C2_Witness ==
    \E p \in Procs : pc[p] = "get_next" /\ Len(claimed[p]) >= 1 /\ Len(saved[p]) >= 1

\* C3: a job whose task panicked gets save_failure and never save_result, a
\* job whose task returned artifacts gets save_result and never save_failure,
\* and either call is made once for the job.
C3_OutcomesExclusive ==
    \A p \in Procs : \A i \in 1..Len(saved[p]) :
        LET e == saved[p][i] IN
        /\ e.result = "panicked" => e.call = "save_failure" /\ status[e.job] = "failed"
        /\ e.result = "ok" => e.call = "save_result" /\ status[e.job] = "completed"
        /\ e.result \in {"ok", "panicked"}
        /\ \A k \in 1..Len(saved[p]) : saved[p][k].job = e.job => k = i

\* an instance that recorded a panicked job and then a successful one
C3_Witness ==
    \E p \in Procs :
        /\ Len(saved[p]) = 2
        /\ saved[p][1].result = "panicked" /\ saved[p][1].call = "save_failure"
        /\ saved[p][2].result = "ok" /\ saved[p][2].call = "save_result"

\* C4: with several instances on one store whose claim is atomic, no job is
\* held by two instances at once, no job is returned by two get_next_job
\* calls, and no job id gets more than one save_* call over all instances.
C4_NoDoubleClaim ==
    /\ \A p, q \in Procs :
          p # q => /\ ClaimedJobs(p) \cap ClaimedJobs(q) = {}
                   /\ job_id[p] # NoJob => job_id[p] # job_id[q]
    /\ \A p \in Procs : Cardinality(ClaimedJobs(p)) = Len(claimed[p])
    /\ \A j \in JobIds : SaveCount(j) <= 1

\* two instances executing two different jobs at the same time
C4_Witness ==
    \E p, q \in Procs :
        /\ p # q
        /\ task[p] = "running" /\ task[q] = "running"
        /\ job_id[p] # NoJob /\ job_id[q] # NoJob

\* C5: a step that takes an instance out of polling a panicked task records
\* save_failure for that job and puts the instance at the head of run's loop
\* (or is a fault of the save_failure call itself, never the task's panic
\* raised in run); from the head of the loop, with budget left and the stop
\* signal clear, the next step goes to the get_next_job call.
C5_PanicContained ==
    [][\A p \in Procs :
          /\ (pc[p] = "poll" /\ task[p] = "panicked" /\ pc'[p] # "poll") =>
                \/ /\ pc'[p] = "checkpoint"
                   /\ saved'[p] = Append(saved[p], [job |-> job_id[p],
                                                    call |-> "save_failure",
                                                    result |-> "panicked"])
                   /\ status'[job_id[p]] = "failed"
                \/ pc'[p] = "faulted_save_failure"
          /\ (pc[p] = "checkpoint" /\ pc'[p] # "checkpoint"
                /\ HasBudget(iterations_left[p]) /\ ~stop) => pc'[p] = "get_next"
      ]_vars

\* an instance that recorded a failure and went on to call get_next_job again
C5_Witness ==
    \E p \in Procs :
        /\ Len(saved[p]) >= 1 /\ saved[p][1].call = "save_failure"
        /\ getCalls[p] >= 2 /\ ~Faulted(p)

\* C6: when the stop signal was set while an instance had a job in flight,
\* the instance is out of supervision (short of a store fault) only with
\* that job's outcome persisted; no instance has returned from run with a
\* claimed job left without outcome.
C6_StopDuringJob ==
    \A p \in Procs :
        /\ (stopAt[p] = "supervising" /\ pc[p] \notin SupervisingPCs \cup FaultedPCs) =>
              /\ Len(saved[p]) >= 1 /\ Len(saved[p]) = Len(claimed[p])
              /\ UnresolvedJobs(p) = {}
              /\ status[saved[p][Len(saved[p])].job] \in Terminal
        /\ Returned(p) => UnresolvedJobs(p) = {}

\* the signal came during supervision, the job was saved, then run returned
C6_Witness ==
    \E p \in Procs :
        stopAt[p] = "supervising" /\ pc[p] = "returned_stop" /\ Len(saved[p]) >= 1

\* C7 as stated: no get_next_job call begins once the stop signal is set.
C7_NoCallAfterStop ==
    \A p \in Procs : lateCalls[p] = 0

\* C7 amended: after the stop signal is set an instance begins at most one
\* more get_next_job call, and only when the signal was set after the
\* instance had read it clear at line 57 and before that call at line 64.
C7_AtMostOneCallAfterStop ==
    \A p \in Procs :
        /\ lateCalls[p] <= 1
        /\ lateCalls[p] = 1 => stopAt[p] = "get_next"
        /\ (stop /\ pc[p] = "get_next") => stopAt[p] = "get_next" /\ lateCalls[p] = 0

\* the signal came between the stop check and the claim; the job claimed by
\* that call was resolved and run returned at the next stop check
C7_Witness ==
    \E p \in Procs :
        /\ lateCalls[p] = 1 /\ pc[p] = "returned_stop"
        /\ Len(claimed[p]) = 1 /\ Len(saved[p]) = 1

\* C8: an instance whose run was entered with the stop signal set makes no
\* get_next_job call and claims nothing: it stands at the first check or has
\* returned (through the loop condition only when its budget was Some(0)).
C8_StopAtEntry ==
    \A p \in Procs :
        stopAt[p] = "entry" =>
            /\ getCalls[p] = 0 /\ claimed[p] = <<>>
            /\ pc[p] \in {"checkpoint", "returned_stop", "returned_done"}
            /\ pc[p] = "returned_done" => budget0[p] = Some(0)

\* an unbounded run entered with the signal set returned over a non-empty backlog
C8_Witness ==
    \E p \in Procs :
        /\ stopAt[p] = "entry" /\ pc[p] = "returned_stop"
        /\ budget0[p] = None /\ PendingJobs # {}

\* C9: an instance run with budget Some(0) makes no get_next_job call and
\* claims nothing; its first step leaves the loop.
C9_ZeroBudget ==
    \A p \in Procs :
        budget0[p] = Some(0) =>
            /\ getCalls[p] = 0 /\ claimed[p] = <<>>
            /\ pc[p] \in {"checkpoint", "returned_done"}

\* a run with budget Some(0) returned with jobs pending and the signal clear
C9_Witness ==
    \E p \in Procs :
        budget0[p] = Some(0) /\ pc[p] = "returned_done" /\ PendingJobs # {} /\ ~stop

\* C10: a run with budget Some(N) that has returned, with the stop signal
\* clear and every get_next_job call having returned a job, has claimed and
\* resolved exactly N jobs and left through the loop condition; a job that no
\* instance claimed is still absent or pending.
C10_ExactlyN ==
    /\ \A p \in Procs :
          (Returned(p) /\ budget0[p].some /\ ~stop /\ getCalls[p] = Len(claimed[p])) =>
              /\ pc[p] = "returned_done"
              /\ Len(claimed[p]) = budget0[p].val
              /\ Len(saved[p]) = budget0[p].val
              /\ \A j \in ClaimedJobs(p) : status[j] \in Terminal
    /\ \A j \in JobIds :
          (\A q \in Procs : j \notin ClaimedJobs(q)) => status[j] \in {"absent", "pending"}

\* budget 1 over two pending jobs, the other instance idle: one job resolved,
\* one left pending, run returned
C10_Witness ==
    \E p \in Procs :
        /\ pc[p] = "returned_done" /\ budget0[p] = Some(1) /\ ~stop
        /\ Len(saved[p]) = 1 /\ Cardinality(PendingJobs) = MaxJobs - 1
        /\ \A q \in Procs \ {p} : claimed[q] = <<>>

\* C11: in a bounded run a get_next_job call that returned no job ends the
\* run at once: the run never sleeps, and once a call has come back without a
\* job (and without a fault) the run has returned, after exactly one such call,
\* with fewer than N jobs claimed, budget left and nothing unresolved.
C11_BoundedStopsOnEmpty ==
    \A p \in Procs :
        budget0[p].some =>
            /\ pc[p] # "sleep"
            /\ (getCalls[p] > Len(claimed[p]) /\ ~Faulted(p)) => pc[p] = "returned_empty"
            /\ pc[p] = "returned_empty" =>
                  /\ getCalls[p] = Len(claimed[p]) + 1
                  /\ Len(claimed[p]) < budget0[p].val
                  /\ iterations_left[p].val > 0
                  /\ Len(saved[p]) = Len(claimed[p])

\* budget 2, one job processed, the second call found nothing: run returned
C11_Witness ==
    \E p \in Procs :
        /\ budget0[p] = Some(2) /\ pc[p] = "returned_empty"
        /\ Len(claimed[p]) = 1 /\ Len(saved[p]) = 1 /\ getCalls[p] = 2

\* C12: a run with budget Some(N) never claims more than N jobs and never
\* makes more than N get_next_job calls; with N jobs claimed (budget zero) it
\* is not at, nor on its way to, another get_next_job call.
C12_BudgetCapsClaims ==
    \A p \in Procs :
        budget0[p].some =>
            /\ Len(claimed[p]) <= budget0[p].val
            /\ getCalls[p] <= budget0[p].val
            /\ Len(claimed[p]) = budget0[p].val => pc[p] \notin {"get_next", "sleep"}
            /\ (Len(claimed[p]) = budget0[p].val /\ Len(saved[p]) = Len(claimed[p])) =>
                  pc[p] \in {"checkpoint", "returned_done"}

\* the budget is used up while the backlog still holds a pending job
C12_Witness ==
    \E p \in Procs :
        /\ budget0[p].some /\ budget0[p].val >= 1
        /\ Len(claimed[p]) = budget0[p].val /\ pc[p] = "returned_done"
        /\ PendingJobs # {} /\ stop

\* C13: in an unbounded run a get_next_job call that returned no job leads
\* to the sleep, the sleep leads back to the head of the loop, and the run
\* returns only from the head of the loop with the stop signal set.
C13_UnboundedSleepsOnEmpty ==
    [][\A p \in Procs :
          ~budget0[p].some =>
              /\ (pc[p] = "get_next" /\ pc'[p] # "get_next" /\ claimed'[p] = claimed[p]
                    /\ ~Faulted(p)') => pc'[p] = "sleep"
              /\ (pc[p] = "sleep" /\ pc'[p] # "sleep") => pc'[p] = "checkpoint"
              /\ (pc'[p] \in ReturnedPCs /\ pc[p] \notin ReturnedPCs) =>
                    pc[p] = "checkpoint" /\ pc'[p] = "returned_stop" /\ stop
              /\ iterations_left'[p] = None
      ]_vars

\* an unbounded run that polled an empty backlog, slept, and returned on the signal
C13_Witness ==
    \E p \in Procs :
        /\ budget0[p] = None /\ pc[p] = "returned_stop"
        /\ getCalls[p] >= 2 /\ claimed[p] = <<>>

\* C14: the job ids an instance passed to save_result / save_failure are, in
\* order, the job ids get_next_job returned to it, at most the last one still
\* missing; after a return from run the two sequences are equal.
C14_SavedInClaimOrder ==
    \A p \in Procs :
        /\ Len(saved[p]) <= Len(claimed[p])
        /\ Len(claimed[p]) - Len(saved[p]) <= 1
        /\ \A i \in 1..Len(saved[p]) : saved[p][i].job = claimed[p][i]
        /\ Returned(p) => Len(saved[p]) = Len(claimed[p])

\* an instance that was handed job 2 before job 1 and saved them in that order
C14_Witness ==
    \E p \in Procs :
        /\ claimed[p] = <<2, 1>>
        /\ Len(saved[p]) = 2 /\ saved[p][1].job = 2 /\ saved[p][2].job = 1

\* C15: while the task of an instance is running, every step leaves the
\* instance in the poll loop of wait_for_task, with no save_* call, no new
\* claim and no get_next_job call, whether or not the stop signal is set; and
\* if the task runs forever the instance polls it again and again forever.
C15_HungJobBlocks ==
    /\ [][\A p \in Procs :
            (task[p] = "running" /\ task'[p] = "running") =>
                /\ pc'[p] \in {"poll", "wait_sleep"}
                /\ saved'[p] = saved[p] /\ claimed'[p] = claimed[p]
                /\ getCalls'[p] = getCalls[p] /\ status'[job_id[p]] = "claimed"
         ]_vars
    /\ \A p \in Procs :
          <>[](task[p] = "running") =>
              /\ []<>(pc[p] = "poll")
              /\ []<>(pc[p] = "wait_sleep")

\* the signal was set while the job was in flight; the task is still running
\* and the instance is still in the poll loop
C15_Witness ==
    \E p \in Procs :
        /\ stop /\ stopAt[p] = "supervising"
        /\ task[p] = "running" /\ pc[p] = "wait_sleep"
        /\ Len(claimed[p]) = Len(saved[p]) + 1

\* C16: a get_next_job call that comes back with neither a job nor None, and
\* a save_* call that does not complete, end the run in the fault of that call;
\* an instance whose run ended in a fault takes no further step: no claim, no
\* get_next_job call, no save_* call.
C16_StoreFaultsSurface ==
    [][\A p \in Procs :
          /\ (pc[p] = "get_next" /\ pc'[p] # "get_next" /\ claimed'[p] = claimed[p]
                /\ ~NoPendingJob) => pc'[p] = "faulted_get_next_job"
          /\ (pc[p] = "poll" /\ task[p] \in {"ok", "panicked"} /\ pc'[p] # "poll"
                /\ saved'[p] = saved[p]) =>
                    pc'[p] = IF task[p] = "ok" THEN "faulted_save_result"
                                               ELSE "faulted_save_failure"
          /\ Faulted(p) =>
                /\ pc'[p] = pc[p] /\ claimed'[p] = claimed[p] /\ saved'[p] = saved[p]
                /\ getCalls'[p] = getCalls[p] /\ iterations_left'[p] = iterations_left[p]
      ]_vars

\* a run ended by a fault of save_result although budget and work remain and
\* the stop signal is clear
C16_Witness ==
    \E p \in Procs :
        /\ pc[p] = "faulted_save_result" /\ HasBudget(iterations_left[p])
        /\ PendingJobs # {} /\ ~stop

\* C17: the remaining budget of a bounded run is N minus the number of jobs
\* get_next_job has returned to it, in every state (so polls, sleeps, stop
\* checks and calls that return None leave it alone); the budget of an
\* unbounded run is None in every state.
C17_BudgetCountsClaims ==
    \A p \in Procs :
        iterations_left[p] = IF budget0[p].some
                             THEN Some(budget0[p].val - Len(claimed[p]))
                             ELSE None

\* budget 2, one job claimed and being polled: one iteration left
C17_Witness ==
    \E p \in Procs :
        /\ budget0[p] = Some(2) /\ iterations_left[p] = Some(1)
        /\ pc[p] = "wait_sleep" /\ Len(claimed[p]) = 1

\* C18: a step that changes the stop signal changes nothing of any instance
\* (it is the sender's step), so no step of run or wait_for_task changes the
\* signal; and a set signal stays set.
C18_StopOnlyRead ==
    [][/\ stop' # stop =>
             /\ pc' = pc /\ task' = task /\ job_id' = job_id /\ status' = status
             /\ iterations_left' = iterations_left
             /\ claimed' = claimed /\ saved' = saved /\ getCalls' = getCalls
       /\ stop => stop'
      ]_vars

\* an instance finished its job and came back to the loop head after the
\* signal was set, and the signal is still set
C18_Witness ==
    \E p \in Procs :
        stop /\ stopAt[p] = "supervising" /\ pc[p] = "checkpoint" /\ Len(saved[p]) >= 1

\* C19: under a fair executor and with every task ending, a bounded run
\* eventually ends, by a return or by the panic of a store call, having
\* claimed at most N jobs.
C19_BoundedTerminates ==
    \A p \in Procs :
        budget0[p].some ~>
            ((Returned(p) \/ Faulted(p)) /\ Len(claimed[p]) <= budget0[p].val)

\* a bounded run that used its whole budget of 2 and returned
C19_Witness ==
    \E p \in Procs :
        /\ budget0[p] = Some(2) /\ pc[p] = "returned_done"
        /\ Len(saved[p]) = 2 /\ ~stop

\* C20: under a fair executor and with every task ending, once the stop
\* signal is set every run eventually ends (by a return, or by the panic of a
\* store call), the unbounded run and the run asleep on an empty backlog too.
C20_StopHonoured ==
    \A p \in Procs : stop ~> (Returned(p) \/ Faulted(p))

\* an unbounded run that was asleep when the signal was set has returned
C20_Witness ==
    \E p \in Procs :
        budget0[p] = None /\ stopAt[p] = "sleep" /\ pc[p] = "returned_stop"

\* C21: no starvation.  Under a fair executor and with every task ending, a
\* job that is pending while an unbounded run exists eventually has a terminal
\* record in the store, unless the stop signal is set, that unbounded run is
\* ended by the panic of a store call, or the save_* call made for this very
\* job panics.
C21_NoStarvation ==
    \A j \in JobIds : \A p \in Procs :
        (status[j] = "pending" /\ budget0[p] = None) ~>
            \/ status[j] \in Terminal
            \/ stop
            \/ Faulted(p)
            \/ \E q \in Procs : Faulted(q) /\ job_id[q] = j

\* an unbounded run that also met an empty backlog and slept has claimed a job
\* and persisted its outcome, with the stop signal unset and no store fault
C21_Witness ==
    \E p \in Procs :
        /\ budget0[p] = None /\ ~stop /\ \A q \in Procs : ~Faulted(q)
        /\ getCalls[p] = 2 /\ Len(claimed[p]) = 1 /\ Len(saved[p]) = 1
        /\ pc[p] = "checkpoint"
        /\ status[claimed[p][1]] \in Terminal

\* C22: process_job is invoked once for each claimed job: a task is spawned
\* only from the place after a claim, for the job id just returned by
\* get_next_job, and that place is left only by spawning it.  A save_* call is
\* made only when the poll found the task finished, once, with the job id of
\* that claim, and it is the only step that gives a job a terminal record; a
\* job whose task is still running has no outcome persisted.
C22_ProcessOnceSaveAfterFinish ==
    /\ [][\A p \in Procs :
            /\ (task'[p] = "running" /\ task[p] # "running") =>
                  /\ pc[p] = "dispatch" /\ task[p] = "none"
                  /\ Len(claimed[p]) = Len(saved[p]) + 1
                  /\ job_id[p] = claimed[p][Len(claimed[p])]
                  /\ job_id'[p] = job_id[p]
            /\ (pc[p] = "dispatch" /\ pc'[p] # "dispatch") =>
                  pc'[p] = "poll" /\ task'[p] = "running"
            /\ (pc'[p] = "dispatch" /\ pc[p] # "dispatch") =>
                  /\ task[p] = "none" /\ task'[p] = "none"
                  /\ claimed'[p] = Append(claimed[p], job_id'[p])
            /\ saved'[p] # saved[p] =>
                  /\ pc[p] = "poll" /\ task[p] \in {"ok", "panicked"}
                  /\ Len(claimed[p]) = Len(saved[p]) + 1
                  /\ job_id[p] = claimed[p][Len(claimed[p])]
                  /\ saved'[p] = Append(saved[p], [job |-> job_id[p],
                                                    call |-> OutcomeCall(task[p]),
                                                    result |-> task[p]])
                  /\ status[job_id[p]] = "claimed" /\ status'[job_id[p]] \in Terminal
                  /\ \A j \in JobIds \ {job_id[p]} : status'[j] = status[j]
         ]_vars
    /\ [][\A j \in JobIds :
            (status'[j] \in Terminal /\ status[j] \notin Terminal) =>
                \E p \in Procs : job_id[p] = j /\ saved'[p] # saved[p]
         ]_vars
    /\ [](\A p \in Procs :
            /\ task[p] = "running" =>
                  /\ pc[p] \in {"poll", "wait_sleep"}
                  /\ status[job_id[p]] = "claimed"
                  /\ job_id[p] \notin SavedJobs(p)
            /\ pc[p] \in {"poll", "wait_sleep"} => task[p] # "none"
            /\ pc[p] \in RunningPCs \cup ReturnedPCs \cup {"dispatch"} => task[p] = "none")

\* the task of an instance's second job has ended but the poll has not seen it
\* yet: the first job has its outcome, the second has none
C22_Witness ==
    \E p \in Procs :
        /\ Len(claimed[p]) = 2 /\ Len(saved[p]) = 1
        /\ pc[p] = "wait_sleep" /\ task[p] = "ok"
        /\ job_id[p] = claimed[p][2] /\ status[job_id[p]] = "claimed"
        /\ status[claimed[p][1]] \in Terminal

\* C23: the budget counter never underflows.  Every step that changes
\* iterations_left changes a Some(i) with i > 0 into Some(i - 1); a bounded
\* run stands before get_next_job (the call whose Some arm decrements) only
\* with a budget above 0; and the remaining budget of a run called with
\* Some(N) is in 0..N in every state, that of an unbounded run is None.
C23_NoUnderflow ==
    /\ [][\A p \in Procs :
            iterations_left'[p] # iterations_left[p] =>
                /\ iterations_left[p].some /\ iterations_left[p].val > 0
                /\ iterations_left'[p] = Some(iterations_left[p].val - 1)
                /\ pc[p] = "get_next"
         ]_vars
    /\ [](\A p \in Procs :
            /\ budget0[p].some =>
                  /\ iterations_left[p].some
                  /\ iterations_left[p].val \in 0..budget0[p].val
                  /\ pc[p] = "get_next" => iterations_left[p].val > 0
            /\ ~budget0[p].some => iterations_left[p] = None)

\* the decrement that took the counter of a run with budget 2 from 1 to 0
\* has just been made
C23_Witness ==
    \E p \in Procs :
        /\ budget0[p] = Some(2) /\ iterations_left[p] = Some(0)
        /\ pc[p] = "dispatch" /\ Len(claimed[p]) = 2

=============================================================================
